---- MODULE Spec2Model ----
(***************************************************************************)
(* Model of the title agent of Labfiles/06-build-remote-agents-with-a2a:   *)
(*   title_agent/agent_executor.py  FoundryAgentExecutor                   *)
(*   title_agent/agent.py           TitleAgent, create_foundry_title_agent *)
(*                                                                         *)
(* The executor runs on one asyncio event loop.  A coroutine gives up the  *)
(* loop only at an await that really suspends, so the code between two     *)
(* awaits of the a2a library (TaskUpdater) is one atomic step.  The worker *)
(* factory create_foundry_title_agent and TitleAgent.create_agent contain  *)
(* no suspending await (agent.py uses the synchronous AgentsClient), so    *)
(* the check, the creation and the assignment of lines 51-52 of            *)
(* agent_executor.py form one step.                                        *)
(*                                                                         *)
(* The a2a library (TaskUpdater, Part, RequestContext) is used as the      *)
(* source uses it: context.message is the list of parts, a part has a      *)
(* root with a text, and each TaskUpdater call publishes one event.        *)
(*                                                                         *)
(* The sequential workflow of Labfiles/05-agent-orchestration:             *)
(*   Python/agents.py  main                                                *)
(* main builds the workflow, reads its stream of events, keeps the data of *)
(* the output events and prints the last one.  The workflow engine         *)
(* (SequentialBuilder, run_stream) is not part of the sources; it is       *)
(* modelled from section 4.1 of the specification.                         *)
(***************************************************************************)
EXTENDS Integers, Sequences, FiniteSets, TLC

\* ------------------------------------------------------------------ bounds
\* number of execute/cancel calls made on the executor
MaxCalls == 2

\* number of run_conversation calls made on one TitleAgent
MaxConversations == 2

\* number of participants of a sequential workflow
MaxParticipants == 3

\* number of messages in a list handed to the display loop
MaxMessages == 2

\* ------------------------------------------------------------- value sets
None == "None"
\* no TitleAgent handle (handles are 1, 2, ...), no context, no message
NoAgent == 0
NoContext == [task_id |-> None, context_id |-> None]
NoMessage == [text |-> <<>>, context_id |-> None]
Calls == 1..MaxCalls
TaskIds == {"t1", "t2"}
\* RequestContext: the task id and context id of a call; each task lives in
\* its own context
Contexts == {[task_id |-> "t1", context_id |-> "c1"],
             [task_id |-> "t2", context_id |-> "c2"]}
\* Part: its root is None or has a text, which can be empty
UserTexts == {"Generate a title"}
NoRoot == [is_none |-> TRUE]
PartValues == [root : {NoRoot} \cup [text : {""} \cup UserTexts]]
\* context.message: no part, or one part of each kind
MessageParts == {<<>>} \cup {<<p>> : p \in PartValues}

\* exceptions: a type and the text str(e) gives
NoExc == [type |-> None, text |-> None]
\* what TitleAgent() can raise (agent.py lines 40-43, the construction of the
\* AgentsClient) and what client.create_agent can raise (agent.py line 71)
InitErrors == {[type |-> "ValueError", text |-> "Parameter 'endpoint' must not be None."]}
CreateErrors == [type : {"HttpResponseError"}, text : {"quota exceeded"}]
FactoryErrors == InitErrors \cup CreateErrors
\* TitleAgent.agent before create_agent has set it (remote agents are 1, 2, ...)
NoRemoteAgent == 0

\* run_conversation calls, and what client.runs.create_and_process can report
Conversations == 1..MaxConversations
RunErrors == {"rate_limit_exceeded", "server_error"}
NoRun == [status |-> None, last_error |-> None]
RunOutcomes == {[status |-> "completed", last_error |-> None]}
                   \cup [status : {"failed"}, last_error : RunErrors]
\* the messages a run can leave on its thread, oldest first: an agent message
\* holds zero or more text contents; Title(m) stands for the model's answer
\* to user message m
Title(m) == <<"Title for: ", m>>
AgentReplies(m) ==
    {<<>>,
     <<[role |-> "agent", text_messages |-> <<>>]>>,
     <<[role |-> "agent", text_messages |-> <<Title(m)>>]>>,
     <<[role |-> "agent", text_messages |-> <<Title(m), <<"Alternative: ", m>>>>]>>,
     <<[role |-> "agent", text_messages |-> <<<<"Thinking about: ", m>>>>],
       [role |-> "agent", text_messages |-> <<Title(m)>>]>>,
     <<[role |-> "agent", text_messages |-> <<Title(m)>>],
       [role |-> "agent", text_messages |-> <<>>]>>}
UserMessages == {"Generate a title", "A blog about AI"}

\* a2a.types.TaskState (line 14), and the values the executor publishes
\* that end a task
TaskState == {"submitted", "working", "input_required", "completed", "failed", "canceled"}
Terminal == {"completed", "failed"}

VARIABLES
    foundry_agent,   \* FoundryAgentExecutor._foundry_agent: NoAgent or a TitleAgent handle
    title_agents,    \* the TitleAgent objects made so far: handle -> TitleAgent.agent
    remote_agents,   \* number of agents client.create_agent has created remotely
    factory_calls,   \* number of invocations of create_foundry_title_agent
    event_queue,     \* the event queue of each task: the events published, in order
    pc,              \* per call: the step it is at
    kind,            \* per call: "execute" or "cancel"
    context,         \* per call: its RequestContext
    message_parts,   \* per call: context.message
    user_message,    \* per call: local user_message of _process_request
    agent,           \* per call: local agent of _process_request
    exc,             \* per call: the exception in flight
    response,        \* per call: local response of _process_request
    threads,         \* the threads of the agents service: thread id -> its messages
    conv,            \* per run_conversation call: its step and its locals
    workflow,        \* the participants of the workflow built at agents.py line 112
    initial_input,   \* the text handed to run_stream
    conversation,    \* the workflow's conversation state
    stage,           \* the index of the workflow's next stage, from 0
    seen,            \* per stage invoked so far: the messages it was invoked with
    pending,         \* the messages the stage being invoked has returned
    stream,          \* the events the workflow has emitted, in order
    pipe_pc,         \* the workflow's run: built, called, running, invoked, completed, failed
    pipe_exc,        \* the error the workflow's run ended with
    outputs,         \* main's local outputs
    taken,           \* number of events main's loop has read
    main_pc,         \* main's position: start, loop, display, raised, done
    printed          \* the lines main has printed

\* the state of the executor's calls, and that of direct run_conversation calls
callVars == <<event_queue, pc, kind, context, message_parts, user_message, agent,
              exc, response, foundry_agent, factory_calls>>
convVars == <<threads, conv>>
\* the state of the workflow and of main
engineVars == <<workflow, initial_input, conversation, stage, seen, pending, stream,
                pipe_pc, pipe_exc>>
mainVars == <<outputs, taken, main_pc, printed>>
pipeVars == <<engineVars, mainVars>>

vars == <<foundry_agent, title_agents, remote_agents, factory_calls, event_queue,
          pc, kind, context, message_parts, user_message, agent, exc, response,
          threads, conv, workflow, initial_input, conversation, stage, seen, pending,
          stream, pipe_pc, pipe_exc, outputs, taken, main_pc, printed>>

\* -------------------------------------------------------- pure functions

\* a2a.utils.new_agent_text_message(text, context_id=...); a text is kept as
\* the sequence of the pieces an f-string joins
new_agent_text_message(text, context_id) ==
    [text |-> text, context_id |-> context_id]

GenericFailure == <<"Title Agent failed to process the request.">>
CancelNotice == <<"Task cancelled by user">>

\* event_queue.enqueue_event: the queue of the events' task gets them
Publish(queue, ctx, events) == [queue EXCEPT ![ctx.task_id] = @ \o events]

\* line 127 with one TaskUpdater kept on the executor: an event carries the
\* ids of the request that came in last
EventOfLatestRequest(ctx, c, state, message) ==
    LET begun == {d \in Calls : pc[d] # "idle"}
        ids == IF begun = {} THEN ctx
               ELSE context[CHOOSE d \in begun : \A e \in begun : e <= d]
    IN [task_id |-> ids.task_id, context_id |-> ids.context_id, state |-> state,
        message |-> message, updater |-> c]

\* one event of TaskUpdater(event_queue, task_id, context_id)
Event(ctx, c, state, message) ==
    [task_id |-> ctx.task_id, context_id |-> ctx.context_id, state |-> state,
     message |-> message, updater |-> c]

\* Python truthiness: `not root` of an object-or-None, `not text` of a str-or-None
NotRoot(r) == r = NoRoot
NotText(t) == t = None \/ t = ""

\* lines 75-80: the exception validation raises, NoExc when the input passes
Validate(parts) ==
    IF Len(parts) = 0
    THEN [type |-> "ValueError", text |-> "No message parts provided"]
    ELSE IF NotRoot(parts[1].root) \/ NotText(parts[1].root.text)
    THEN [type |-> "ValueError", text |-> "Message part does not contain text"]
    ELSE NoExc

\* line 51 without the check: a worker is created on every call
NeedsCreationAlways(cached) == TRUE

\* line 51 with the test inverted (`if self._foundry_agent`)
NeedsCreationInverted(cached) == cached # NoAgent

\* line 51: `if not self._foundry_agent`
NeedsCreation(cached) == cached = NoAgent

\* line 52 with the new TitleAgent stored before create_agent is awaited
CacheBeforeCreate(cached, made, raised) ==
    IF made # NoAgent THEN made ELSE cached

\* line 52: the value of self._foundry_agent after the factory has returned
\* handle `made`, or raised (raised # NoExc): the assignment runs only when
\* the awaited factory returns
CacheAfterFactory(cached, made, raised) ==
    IF raised = NoExc THEN made ELSE cached

\* the methods class TitleAgent defines
TitleAgentMethods == {"__init__", "create_agent", "run_conversation"}

\* line 92: attribute lookup of agent.generate_title
AttributeErrorOf(name) ==
    [type |-> "AttributeError",
     text |-> "'TitleAgent' object has no attribute '" \o name \o "'"]

\* lines 99-110 without the `except Exception` handler
CaughtValueErrorOnly(e) == e.type = "ValueError"

\* lines 99 and 105: is the exception caught by one of the two handlers
\* (every Exception is)
Caught(e) == e.type = "ValueError" \/ e.type # None

\* lines 99-110 with the `except Exception` handler placed first
FailureTextGenericFirst(e) == GenericFailure

\* lines 99-110: the text of the failed message the handlers publish
FailureText(e) ==
    IF e.type = "ValueError"
    THEN <<"Invalid request: ", e.text>>
    ELSE GenericFailure

\* line 128 without its await: the coroutine never runs
submitNotAwaited(ctx, c) == <<>>

\* line 128: what updater.submit() publishes
submit(ctx, c) == <<Event(ctx, c, "submitted", NoMessage)>>

\* lines 131 and 89 with the coroutine never awaited: nothing is published
start_workNotAwaited(ctx, c) == <<>>

\* line 131 and line 89: what updater.start_work() / running() publishes
start_work(ctx, c) == <<Event(ctx, c, "working", NoMessage)>>

\* lines 102, 108, 152: what updater.failed(message) publishes
failed(ctx, c, text) ==
    <<Event(ctx, c, "failed", new_agent_text_message(text, ctx.context_id))>>

\* line 95: what updater.completed(message) publishes
completed(ctx, c, text) ==
    <<Event(ctx, c, "completed", new_agent_text_message(text, ctx.context_id))>>

\* lines 151-154 with the cancellation skipped for a task that is not at work
cancelIfWorking(queue, ctx, c) ==
    IF queue[ctx.task_id] # <<>> /\ queue[ctx.task_id][Len(queue[ctx.task_id])].state = "working"
    THEN failed(ctx, c, CancelNotice)
    ELSE <<>>

\* lines 151-154 with updater.cancel() in the place of updater.failed()
cancelAsCanceled(queue, ctx, c) ==
    <<Event(ctx, c, "canceled", new_agent_text_message(CancelNotice, ctx.context_id))>>

\* lines 151-154: what cancel publishes, given the events published so far
cancel(queue, ctx, c) == failed(ctx, c, CancelNotice)

\* ------------------------------------------------------------------ Init
\* a run_conversation call that has not been made
NoConversation ==
    [pc |-> "idle", self |-> NoAgent, user_message |-> None, thread |-> 0,
     run |-> NoRun, result |-> <<>>, raised |-> NoExc]

\* the executor after __init__ (lines 36-37), no call made
InitCalls ==
    /\ foundry_agent = NoAgent
    /\ factory_calls = 0
    /\ event_queue = [t \in TaskIds |-> <<>>]
    /\ pc = [c \in Calls |-> "idle"]
    /\ kind = [c \in Calls |-> None]
    /\ context = [c \in Calls |-> NoContext]
    /\ message_parts = [c \in Calls |-> <<>>]
    /\ user_message = [c \in Calls |-> None]
    /\ agent = [c \in Calls |-> NoAgent]
    /\ exc = [c \in Calls |-> NoExc]
    /\ response = [c \in Calls |-> <<>>]

InitConversations ==
    /\ threads = <<>>
    /\ conv = [k \in Conversations |-> NoConversation]

\* a workflow w at step p of its run, main at position m holding outputs o
InitPipeline(w, p, m, o) ==
    /\ workflow = w
    /\ initial_input = <<>>
    /\ conversation = <<>>
    /\ stage = 0
    /\ seen = <<>>
    /\ pending = <<>>
    /\ stream = <<>>
    /\ pipe_pc = p
    /\ pipe_exc = NoExc
    /\ outputs = o
    /\ taken = 0
    /\ main_pc = m
    /\ printed = <<>>

\* main is not running
NoPipeline == InitPipeline(<<>>, None, None, <<>>)

Init ==
    /\ InitCalls
    /\ InitConversations
    /\ NoPipeline
    /\ title_agents = <<>>
    /\ remote_agents = 0

\* calls are numbered in the order they are made
MayStart(c) == pc[c] = "idle" /\ \A d \in Calls : d < c => pc[d] # "idle"

\* --------------------------------------------------------------- execute
\* lines 126-128: a call of execute(context, event_queue) up to updater.submit()
Execute(c, ctx, parts) ==
    /\ MayStart(c)
    /\ kind' = [kind EXCEPT ![c] = "execute"]
    /\ context' = [context EXCEPT ![c] = ctx]
    /\ message_parts' = [message_parts EXCEPT ![c] = parts]
    /\ event_queue' = Publish(event_queue, ctx, submit(ctx, c))
    /\ pc' = [pc EXCEPT ![c] = "start_work"]
    /\ UNCHANGED <<foundry_agent, title_agents, remote_agents, factory_calls,
                   user_message, agent, exc, response>>
    /\ UNCHANGED <<convVars, pipeVars>>

\* line 131: updater.start_work()
StartWork(c) ==
    /\ pc[c] = "start_work"
    /\ event_queue' = Publish(event_queue, context[c], start_work(context[c], c))
    /\ pc' = [pc EXCEPT ![c] = "validate"]
    /\ UNCHANGED <<foundry_agent, title_agents, remote_agents, factory_calls,
                   kind, context, message_parts, user_message, agent, exc, response>>
    /\ UNCHANGED <<convVars, pipeVars>>

\* lines 99-110: the handlers of _process_request.  Exception e, raised in
\* the try block by call c, is caught and published as a failed event, after
\* which _process_request and execute return; an exception no handler
\* catches leaves execute.  Nothing suspends between the raise and the
\* handler's call of task_updater.failed.
Handle(c, e) ==
    /\ exc' = [exc EXCEPT ![c] = e]
    /\ IF Caught(e)
       THEN /\ event_queue' = Publish(event_queue, context[c], failed(context[c], c, FailureText(e)))
            /\ pc' = [pc EXCEPT ![c] = "returned"]
       ELSE /\ pc' = [pc EXCEPT ![c] = "raised"]
            /\ UNCHANGED event_queue

\* lines 73-83: input validation and reading of the user message
ValidateInput(c) ==
    /\ pc[c] = "validate"
    /\ LET e == Validate(message_parts[c])
       IN IF e # NoExc
          THEN /\ Handle(c, e)
               /\ UNCHANGED user_message
          ELSE /\ user_message' = [user_message EXCEPT ![c] = message_parts[c][1].root.text]
               /\ pc' = [pc EXCEPT ![c] = "get_agent"]
               /\ UNCHANGED <<exc, event_queue>>
    /\ UNCHANGED <<foundry_agent, title_agents, remote_agents, factory_calls,
                   kind, context, message_parts, agent, response>>
    /\ UNCHANGED <<convVars, pipeVars>>

\* agent.py lines 163-188 with lines 29-80: create_foundry_title_agent().
\* TitleAgent() builds the client and a TitleAgent object whose agent is
\* None, unless it raises; create_agent stores the agent client.create_agent
\* creates remotely, unless that call raises.
create_foundry_title_agent(raised) ==
    /\ factory_calls' = factory_calls + 1
    /\ IF raised \in InitErrors
       THEN UNCHANGED <<remote_agents, title_agents>>
       ELSE IF raised \in CreateErrors
       THEN /\ title_agents' = Append(title_agents, NoRemoteAgent)
            /\ UNCHANGED remote_agents
       ELSE /\ remote_agents' = remote_agents + 1
            /\ title_agents' = Append(title_agents, remote_agents + 1)

\* the TitleAgent object create_foundry_title_agent has built in this step
Made(raised) == IF raised \in InitErrors THEN NoAgent ELSE Len(title_agents) + 1

\* lines 85-89: agent = await self._get_or_create_agent() (lines 51-53),
\* then task_updater.running().  The factory suspends nowhere, so the check
\* of line 51, the creation and the assignment of line 52 are one step,
\* which runs up to the event the next await publishes.
GetOrCreateAgent(c) ==
    /\ pc[c] = "get_agent"
    /\ IF NeedsCreation(foundry_agent)
       THEN \E raised \in FactoryErrors \cup {NoExc} :
              /\ create_foundry_title_agent(raised)
              /\ foundry_agent' = CacheAfterFactory(foundry_agent, Made(raised), raised)
              /\ IF raised = NoExc
                 THEN /\ agent' = [agent EXCEPT ![c] = foundry_agent']
                      /\ event_queue' = Publish(event_queue, context[c], start_work(context[c], c))
                      /\ pc' = [pc EXCEPT ![c] = "generate_title"]
                      /\ UNCHANGED exc
                 ELSE /\ Handle(c, raised)
                      /\ UNCHANGED agent
       ELSE /\ agent' = [agent EXCEPT ![c] = foundry_agent]
            /\ event_queue' = Publish(event_queue, context[c], start_work(context[c], c))
            /\ pc' = [pc EXCEPT ![c] = "generate_title"]
            /\ UNCHANGED <<foundry_agent, title_agents, remote_agents, factory_calls, exc>>
    /\ UNCHANGED <<kind, context, message_parts, user_message, response>>
    /\ UNCHANGED <<convVars, pipeVars>>

\* lines 92-97: response = await agent.generate_title(user_message), then
\* task_updater.completed(message=new_agent_text_message(response, ...)).
\* The attribute lookup raises when class TitleAgent has no such method.
GenerateTitle(c) ==
    /\ pc[c] = "generate_title"
    /\ IF "generate_title" \in TitleAgentMethods
       THEN /\ response' = [response EXCEPT ![c] = <<user_message[c]>>]
            /\ event_queue' = Publish(event_queue, context[c], completed(context[c], c, response'[c]))
            /\ pc' = [pc EXCEPT ![c] = "returned"]
            /\ UNCHANGED exc
       ELSE /\ Handle(c, AttributeErrorOf("generate_title"))
            /\ UNCHANGED response
    /\ UNCHANGED <<foundry_agent, title_agents, remote_agents, factory_calls,
                   kind, context, message_parts, user_message, agent>>
    /\ UNCHANGED <<convVars, pipeVars>>

\* ---------------------------------------------------------------- cancel
\* lines 149-154: a call of cancel(context, event_queue)
Cancel(c, ctx) ==
    /\ MayStart(c)
    /\ kind' = [kind EXCEPT ![c] = "cancel"]
    /\ context' = [context EXCEPT ![c] = ctx]
    /\ event_queue' = Publish(event_queue, ctx, cancel(event_queue, ctx, c))
    /\ pc' = [pc EXCEPT ![c] = "returned"]
    /\ UNCHANGED <<foundry_agent, title_agents, remote_agents, factory_calls,
                   message_parts, user_message, agent, exc, response>>
    /\ UNCHANGED <<convVars, pipeVars>>

\* ------------------------------------------------------ run_conversation
Last(q) == q[Len(q)]
\* agent.py line 140 listing the messages oldest first
ListedAscending(q) == q
Reverse(q) == [i \in 1..Len(q) |-> q[Len(q) + 1 - i]]

\* agent.py lines 143-156: the texts of the first message, in the order
\* listed, that has the agent role and text content
RECURSIVE Responses(_)
Responses(messages) ==
    IF messages = <<>> THEN <<>>
    ELSE IF Head(messages).role = "agent" /\ Head(messages).text_messages # <<>>
    THEN Head(messages).text_messages
    ELSE Responses(Tail(messages))

\* agent.py lines 133-160: what run_conversation returns for a run and the
\* messages of its thread (oldest first; line 140 lists them newest first)
Result(run, messages) ==
    IF run.status = "failed"
    THEN <<<<"Error: ", run.last_error>>>>
    ELSE IF Responses(Reverse(messages)) # <<>>
    THEN Responses(Reverse(messages))
    ELSE <<<<"No response received">>>>

\* agent.py line 112 with one thread kept for the whole session
SessionThread(ths) == 1

\* agent.py line 112: the id of the thread client.threads.create() makes
NewThread(ths) == Len(ths) + 1

\* the user message the agent finds on a thread: the newest one
Asked(messages) ==
    LET at == CHOOSE i \in 1..Len(messages) :
                  /\ messages[i].role = "user"
                  /\ \A j \in (i + 1)..Len(messages) : messages[j].role # "user"
    IN messages[at].text_messages[1][1]

\* agent.py lines 106-112: a call of run_conversation(user_message) on
\* TitleAgent h: create_agent when self.agent is not set (lines 65-80; an
\* error of client.create_agent leaves the call), then threads.create()
RunConversation(k, h, m) ==
    /\ conv[k].pc = "idle"
    /\ \A j \in Conversations : j < k => conv[j].pc # "idle"
    /\ h \in 1..Len(title_agents)
    /\ \E raised \in CreateErrors \cup {NoExc} :
         IF title_agents[h] # NoRemoteAgent
         THEN /\ raised = NoExc
              /\ threads' = Append(threads, <<>>)
              /\ conv' = [conv EXCEPT ![k] = [@ EXCEPT !.pc = "messages_create", !.self = h,
                                                !.user_message = m, !.thread = NewThread(threads)]]
              /\ UNCHANGED <<title_agents, remote_agents>>
         ELSE IF raised = NoExc
         THEN /\ remote_agents' = remote_agents + 1
              /\ title_agents' = [title_agents EXCEPT ![h] = remote_agents + 1]
              /\ threads' = Append(threads, <<>>)
              /\ conv' = [conv EXCEPT ![k] = [@ EXCEPT !.pc = "messages_create", !.self = h,
                                                !.user_message = m, !.thread = NewThread(threads)]]
         ELSE /\ conv' = [conv EXCEPT ![k] = [@ EXCEPT !.pc = "raised", !.self = h,
                                                !.user_message = m, !.raised = raised]]
              /\ UNCHANGED <<title_agents, remote_agents, threads>>
    /\ UNCHANGED <<callVars, pipeVars>>

\* agent.py lines 117-121: client.messages.create(thread_id, USER, user_message)
MessagesCreate(k) ==
    /\ conv[k].pc = "messages_create"
    /\ threads' = [threads EXCEPT ![conv[k].thread] =
                      Append(@, [role |-> "user", text_messages |-> <<<<conv[k].user_message>>>>])]
    /\ conv' = [conv EXCEPT ![k].pc = "create_and_process"]
    /\ UNCHANGED <<callVars, pipeVars, title_agents, remote_agents>>

\* agent.py lines 126-129: client.runs.create_and_process(thread_id, agent_id):
\* the service runs the agent on the thread, which answers the user message
\* it finds there, and reports how the run ended
CreateAndProcess(k) ==
    /\ conv[k].pc = "create_and_process"
    /\ \E run \in RunOutcomes :
         \E replies \in AgentReplies(Asked(threads[conv[k].thread])) :
            /\ threads' = [threads EXCEPT ![conv[k].thread] = @ \o replies]
            /\ conv' = [conv EXCEPT ![k] = [@ EXCEPT !.pc = "collect", !.run = run]]
    /\ UNCHANGED <<callVars, pipeVars, title_agents, remote_agents>>

\* agent.py lines 133-160: the check of run.status, messages.list and the
\* extraction of the response; run_conversation returns
Collect(k) ==
    /\ conv[k].pc = "collect"
    /\ conv' = [conv EXCEPT ![k] = [@ EXCEPT !.pc = "returned",
                                      !.result = Result(conv[k].run, threads[conv[k].thread])]]
    /\ UNCHANGED <<callVars, pipeVars, title_agents, remote_agents, threads>>

Next ==
    \/ \E c \in Calls, ctx \in Contexts, parts \in MessageParts : Execute(c, ctx, parts)
    \/ \E c \in Calls : StartWork(c)
    \/ \E c \in Calls : ValidateInput(c)
    \/ \E c \in Calls : GetOrCreateAgent(c)
    \/ \E c \in Calls : GenerateTitle(c)
    \/ \E c \in Calls, ctx \in Contexts : Cancel(c, ctx)

Spec == Init /\ [][Next]_vars

\* ---- run_conversation called directly on one TitleAgent (as in the
\* docstrings of agent.py lines 101 and 176-177): the object comes from
\* TitleAgent() (agent not set) or from create_foundry_title_agent()
InitConv ==
    /\ InitCalls
    /\ InitConversations
    /\ NoPipeline
    /\ \E a \in {NoRemoteAgent, 1} : title_agents = <<a>> /\ remote_agents = a

NextConv ==
    \/ \E k \in Conversations, m \in UserMessages : RunConversation(k, 1, m)
    \/ \E k \in Conversations : MessagesCreate(k)
    \/ \E k \in Conversations : CreateAndProcess(k)
    \/ \E k \in Conversations : Collect(k)

SpecConv == InitConv /\ [][NextConv]_vars

\* ---- the sequential workflow of agents.py
\* agents.py lines 84-97: the agents main creates
AgentNames == {"summarizer", "classifier", "action"}

\* what a participant does with the conversation it is given: answer with
\* its last message in upper case, or with that and a closing remark
Behaviours == {"echo", "pair"}

\* the participant lists a workflow is built from (not empty); main's is
\* [summarizer, classifier, action]
ParticipantLists ==
    UNION {[1..n -> [name : AgentNames, behaviour : Behaviours]] : n \in 1..MaxParticipants}

\* Message: role, optional author, text
Roles == {"user", "assistant", "system"}

\* agents.py line 121: the text main hands to run_stream
Prompt(feedback) == <<"Customer feedback: ", feedback>>

\* agents.py lines 102-106: the feedback (shortened)
Feedbacks == {"I couldn't access my account"}

\* the inputs of a run: main's prompt, and a bare sentence
Inputs == {<<"I love the app">>} \cup {Prompt(f) : f \in Feedbacks}

\* upper case, piece by piece
UpperPiece(piece) ==
    CASE piece = "I love the app" -> "I LOVE THE APP"
      [] piece = "Customer feedback: " -> "CUSTOMER FEEDBACK: "
      [] piece = "I couldn't access my account" -> "I COULDN'T ACCESS MY ACCOUNT"
      [] piece = "done" -> "DONE"
      [] OTHER -> piece

Upper(text) == [i \in 1..Len(text) |-> UpperPiece(text[i])]

\* the conversation a run starts with: one user message holding the input
Seed(input) == <<[role |-> "user", author_name |-> None, text |-> input]>>

\* a stage that is handed the newest message only
StageInputLast(state) == <<Last(state)>>

\* what a stage is invoked with: the entire conversation state
StageInput(state) == state

\* the messages participant p returns for the messages it is invoked with
Reply(p, messages) ==
    LET echo == [role |-> "assistant", author_name |-> p.name,
                 text |-> Upper(Last(messages).text)]
        remark == [role |-> "assistant", author_name |-> None, text |-> <<"done">>]
    IN IF p.behaviour = "echo" THEN <<echo>> ELSE <<echo, remark>>

\* the output event of stage i, and the signal that ends a completed run
StageEvent(i, messages) == [kind |-> "output", stage_index |-> i, data |-> messages]
TerminalSignal == [kind |-> "completed", stage_index |-> -1, data |-> <<>>]

\* the error of a participant that fails
StageFailure == [type |-> "RuntimeError", text |-> "participant failed"]

\* agents.py line 121: main calls workflow.run_stream
RunStream(input) ==
    /\ main_pc = "start"
    /\ pipe_pc = "built"
    /\ initial_input' = input
    /\ pipe_pc' = "called"
    /\ main_pc' = "loop"
    /\ UNCHANGED <<workflow, conversation, stage, seen, pending, stream, pipe_exc,
                   outputs, taken, printed>>
    /\ UNCHANGED <<callVars, convVars, title_agents, remote_agents>>

\* the run seeds its conversation state
SeedConversation ==
    /\ pipe_pc = "called"
    /\ conversation' = Seed(initial_input)
    /\ pipe_pc' = "running"
    /\ UNCHANGED <<workflow, initial_input, stage, seen, pending, stream, pipe_exc>>
    /\ UNCHANGED <<mainVars, callVars, convVars, title_agents, remote_agents>>

\* the run goes on when main's loop asks for the next event
Awaited == main_pc = "loop" /\ taken = Len(stream)

\* the next participant is invoked and returns its messages
InvokeStage ==
    /\ pipe_pc = "running"
    /\ Awaited
    /\ stage < Len(workflow)
    /\ seen' = Append(seen, StageInput(conversation))
    /\ pending' = Reply(workflow[stage + 1], StageInput(conversation))
    /\ pipe_pc' = "invoked"
    /\ UNCHANGED <<workflow, initial_input, conversation, stage, stream, pipe_exc>>
    /\ UNCHANGED <<mainVars, callVars, convVars, title_agents, remote_agents>>

\* the next participant is invoked and fails: the run aborts
StageFails ==
    /\ pipe_pc = "running"
    /\ Awaited
    /\ stage < Len(workflow)
    /\ seen' = Append(seen, StageInput(conversation))
    /\ pipe_exc' = StageFailure
    /\ pipe_pc' = "failed"
    /\ UNCHANGED <<workflow, initial_input, conversation, stage, pending, stream>>
    /\ UNCHANGED <<mainVars, callVars, convVars, title_agents, remote_agents>>

\* the stage's messages are appended to the state and its event is emitted
AppendAndEmit ==
    /\ pipe_pc = "invoked"
    /\ conversation' = conversation \o pending
    /\ stream' = Append(stream, StageEvent(stage, pending))
    /\ stage' = stage + 1
    /\ pending' = <<>>
    /\ pipe_pc' = "running"
    /\ UNCHANGED <<workflow, initial_input, seen, pipe_exc>>
    /\ UNCHANGED <<mainVars, callVars, convVars, title_agents, remote_agents>>

\* after the last stage the run signals its end
Finish ==
    /\ pipe_pc = "running"
    /\ Awaited
    /\ stage = Len(workflow)
    /\ stream' = Append(stream, TerminalSignal)
    /\ pipe_pc' = "completed"
    /\ UNCHANGED <<workflow, initial_input, conversation, stage, seen, pending, pipe_exc>>
    /\ UNCHANGED <<mainVars, callVars, convVars, title_agents, remote_agents>>

\* agents.py line 124 without the isinstance test
CollectsAny(event) == TRUE

\* agents.py line 124: isinstance(event, WorkflowOutputEvent)
Collects(event) == event.kind = "output"

\* agents.py lines 124-127: the body of main's loop
Collected(outs, event) == IF Collects(event) THEN Append(outs, event.data) ELSE outs

\* agents.py lines 121-127: one iteration of main's loop
OnEvent ==
    /\ main_pc = "loop"
    /\ taken < Len(stream)
    /\ outputs' = Collected(outputs, stream[taken + 1])
    /\ taken' = taken + 1
    /\ UNCHANGED <<main_pc, printed>>
    /\ UNCHANGED <<engineVars, callVars, convVars, title_agents, remote_agents>>

\* agents.py lines 121-127 inside a handler that drops the error
AfterLoopSwallow(raised) == "display"

\* agents.py lines 121-132: nothing in main catches what the loop raises
AfterLoop(raised) == IF raised # NoExc THEN "raised" ELSE "display"

\* agents.py line 121: the stream has ended, or has raised
LeaveLoop ==
    /\ main_pc = "loop"
    /\ taken = Len(stream)
    /\ pipe_pc \in {"completed", "failed"}
    /\ main_pc' = AfterLoop(pipe_exc)
    /\ UNCHANGED <<outputs, taken, printed>>
    /\ UNCHANGED <<engineVars, callVars, convVars, title_agents, remote_agents>>

\* agents.py line 136 reading outputs[0]
ShownFirst(outs) == outs[1]

\* agents.py line 136: outputs[-1]
Shown(outs) == outs[Len(outs)]

\* agents.py line 139: the name printed for a message
DisplayedName(msg) ==
    IF msg.author_name \notin {None, ""}
    THEN msg.author_name
    ELSE IF msg.role = "assistant" THEN "assistant" ELSE "user"

\* agents.py lines 136-142: the lines printed for a list of messages
Lines(messages) ==
    [i \in 1..Len(messages) |->
        [i |-> i, name |-> DisplayedName(messages[i]), text |-> messages[i].text]]

\* agents.py lines 132-142: main prints the last output
Display ==
    /\ main_pc = "display"
    /\ printed' = IF outputs # <<>> THEN Lines(Shown(outputs)) ELSE <<>>
    /\ main_pc' = "done"
    /\ UNCHANGED <<outputs, taken>>
    /\ UNCHANGED <<engineVars, callVars, convVars, title_agents, remote_agents>>

\* the state after line 112: the workflow is built, run_stream not yet called
InitPipe ==
    /\ InitCalls
    /\ InitConversations
    /\ title_agents = <<>>
    /\ remote_agents = 0
    /\ \E w \in ParticipantLists : InitPipeline(w, "built", "start", <<>>)

NextPipe ==
    \/ \E input \in Inputs : RunStream(input)
    \/ SeedConversation
    \/ InvokeStage
    \/ StageFails
    \/ AppendAndEmit
    \/ Finish
    \/ OnEvent
    \/ LeaveLoop
    \/ Display

SpecPipe == InitPipe /\ [][NextPipe]_vars

\* ---- the display loop of agents.py lines 132-142 on any list of messages
Messages == [role : Roles, author_name : {None} \cup AgentNames, text : {<<"done">>}]

MessageLists == UNION {[1..n -> Messages] : n \in 0..MaxMessages}

InitDisplay ==
    /\ InitCalls
    /\ InitConversations
    /\ title_agents = <<>>
    /\ remote_agents = 0
    /\ \E o \in {<<>>} \cup {<<ms>> : ms \in MessageLists} :
           InitPipeline(<<>>, None, "display", o)

NextDisplay == Display

SpecDisplay == InitDisplay /\ [][NextDisplay]_vars

\* ============================================================ properties
\* the events published for task t / by call c, in order
EventsOfTask(t) == event_queue[t]
EventsOfCall(c) == SelectSeq(event_queue[context[c].task_id], LAMBDA e : e.updater = c)

\* a path of the transition table: submitted first and only first, working
\* after submitted or working, a terminal state after working, nothing
\* after a terminal state
ValidPath(q) ==
    \A i \in 1..Len(q) :
        /\ (i = 1) <=> (q[i].state = "submitted")
        /\ i > 1 => q[i - 1].state \notin Terminal
        /\ (i > 1 /\ q[i].state \in Terminal) => q[i - 1].state = "working"

Executes == {c \in Calls : kind[c] = "execute"}
Returned == {c \in Executes : pc[c] = "returned"}
ValidInput(c) == Validate(message_parts[c]) = NoExc
\* the pieces of text e occurs in message text m
Leaks(e, m) == \E i \in 1..Len(m) : m[i] = e.text

\* C1: for every task the events published form a valid path of the
\* transition table and nothing is published after a terminal event, under
\* any interleaving of execute and cancel calls for the task.
C1_LifecyclePath == \A t \in TaskIds : ValidPath(EventsOfTask(t))

\* C2 as stated: the worker factory is invoked at most once.
C2_FactoryAtMostOnce == factory_calls <= 1

\* C2 amended: at most one factory invocation succeeds (one remote agent
\* is created), and every other invocation is one that raised to its caller.
C2_AtMostOneCreation ==
    /\ remote_agents <= 1
    /\ factory_calls = remote_agents + Cardinality({c \in Calls : exc[c] \in FactoryErrors})

\* two calls hold the worker at once and one factory invocation was made
C2_Witness ==
    \E c, d \in Calls : /\ c # d /\ pc[c] = "generate_title" /\ pc[d] = "generate_title"
                        /\ factory_calls = 1 /\ remote_agents = 1

\* C3: every call that has passed _get_or_create_agent holds a non-empty
\* handle, the one the cache holds, whose TitleAgent.agent is set; so a
\* cached handle is never replaced by another one.
C3_SameHandle ==
    \A c \in Calls :
        /\ pc[c] = "generate_title" => agent[c] # NoAgent
        /\ agent[c] # NoAgent => /\ agent[c] = foundry_agent
                                 /\ title_agents[agent[c]] # NoRemoteAgent

\* a later call has been handed the handle an earlier, finished call created
C3_Witness ==
    \E c, d \in Calls : /\ c # d /\ pc[c] = "returned" /\ agent[c] # NoAgent
                        /\ pc[d] = "generate_title" /\ agent[d] = agent[c]

C6_GenericFailure ==
    \A c \in Returned : (ValidInput(c) /\ exc[c] # NoExc) =>
        /\ Last(EventsOfCall(c)).state = "failed"
        /\ Last(EventsOfCall(c)).message.text = GenericFailure
        /\ \A t \in TaskIds : \A i \in 1..Len(event_queue[t]) :
              ~Leaks(exc[c], event_queue[t][i].message.text)

\* C7: a request with a text whose worker was obtained ends completed, the
\* completed event carrying the worker's response for the request's context.
C7_Completed ==
    \A c \in Returned : (ValidInput(c) /\ agent[c] # NoAgent) =>
        /\ Last(EventsOfCall(c)).state = "completed"
        /\ Last(EventsOfCall(c)).message = new_agent_text_message(response[c], context[c].context_id)

\* C8: a remote run that ends with status 'failed' does not reach the
\* caller as a response: run_conversation does not return normally for it
\* (so that the task is failed, never completed), and nothing it hands to
\* its caller holds run.last_error.
C8_RunFailureHidden ==
    \A k \in Conversations : conv[k].run.status = "failed" =>
        /\ conv[k].pc # "returned"
        /\ \A i \in 1..Len(conv[k].result) :
              \A j \in 1..Len(conv[k].result[i]) :
                 conv[k].result[i][j] # conv[k].run.last_error

\* C9: a factory invocation that raises leaves the cache empty, and a call
\* that asks for the worker after a failed attempt invokes the factory
\* again; when that invocation succeeds the call gets, and the cache holds,
\* a handle whose agent is set.
C9_FailureNotMemoized ==
    [][/\ (factory_calls' # factory_calls /\ remote_agents' = remote_agents)
           => foundry_agent' = NoAgent
       /\ \A c \in Calls :
            (pc[c] = "get_agent" /\ pc'[c] # "get_agent"
               /\ factory_calls > remote_agents /\ remote_agents = 0) =>
            /\ factory_calls' = factory_calls + 1
            /\ pc'[c] = "generate_title" =>
                  /\ foundry_agent' # NoAgent /\ agent'[c] = foundry_agent'
                  /\ title_agents'[foundry_agent'] # NoRemoteAgent]_vars

\* a first request failed in client.create_agent and a later one holds a
\* worker made by a second factory invocation
C9_Witness ==
    \E c, d \in Calls : /\ pc[c] = "returned" /\ exc[c] \in CreateErrors
                        /\ agent[d] # NoAgent /\ agent[d] = foundry_agent
                        /\ factory_calls = 2

\* C10: the events one execute call publishes start with its only
\* submitted event and hold at most one terminal event, which is the last;
\* a call that has returned has published exactly one terminal event.
C10_OneSubmittedOneTerminal ==
    \A c \in Executes :
        LET q == EventsOfCall(c) IN
        /\ Len(q) >= 1
        /\ \A i \in 1..Len(q) :
              /\ (i = 1) <=> (q[i].state = "submitted")
              /\ q[i].state \in Terminal => i = Len(q)
        /\ pc[c] = "returned" => Last(q).state \in Terminal

\* a call has gone through submitted, working, working and its terminal event
C10_Witness ==
    \E c \in Returned : Len(EventsOfCall(c)) = 4

\* the cancel notice published for context ctx by call c
CancelEvent(ctx, c) ==
    Event(ctx, c, "failed", new_agent_text_message(CancelNotice, ctx.context_id))
\* call c makes its cancel call in this step
CancelStep(c) == pc[c] = "idle" /\ kind'[c] = "cancel"
\* an execute call that is under way
InFlight == {c \in Executes : pc[c] \notin {"idle", "returned", "raised"}}

\* C11: a cancel call publishes exactly one failed event with the
\* cancellation notice on the queue of the named task, whatever has been
\* published for the task and wherever an execute call for it stands; it
\* changes nothing of any other call, and every execute call under way,
\* cancelled or not, can still take its next step towards its own terminal
\* transition.
C11_CancelUnconditional ==
    /\ [][\A c \in Calls : CancelStep(c) =>
            /\ event_queue' = Publish(event_queue, context'[c], <<CancelEvent(context'[c], c)>>)
            /\ \A d \in Calls \ {c} : pc'[d] = pc[d] /\ agent'[d] = agent[d] /\ exc'[d] = exc[d]
            /\ UNCHANGED <<foundry_agent, title_agents, remote_agents, factory_calls>>]_vars
    /\ [](\A c \in InFlight :
            ENABLED (StartWork(c) \/ ValidateInput(c) \/ GetOrCreateAgent(c) \/ GenerateTitle(c)))
    /\ [](\A c \in Returned : Last(EventsOfCall(c)).updater = c
                                /\ Last(EventsOfCall(c)).state \in Terminal)

\* the cancel notice reached the queue while the execute call of the task
\* was about to invoke the worker, and that call then published its own
\* terminal event
C11_Witness ==
    \E t \in TaskIds : \E i \in 2..Len(event_queue[t]) :
        LET q == event_queue[t] IN
        /\ i < Len(q)
        /\ q[i].message.text = CancelNotice
        /\ q[i - 1].state = "working" /\ q[i - 1].updater \in Returned
        /\ agent[q[i - 1].updater] # NoAgent
        /\ q[i + 1].updater = q[i - 1].updater /\ q[i + 1].state \in Terminal

\* C12: a cancel call for a task whose last published event is terminal
\* publishes nothing.
C12_CancelIdempotent ==
    [][\A c \in Calls :
         (CancelStep(c) /\ event_queue[context'[c].task_id] # <<>>
            /\ Last(event_queue[context'[c].task_id]).state \in Terminal)
         => event_queue' = event_queue]_vars

\* C13: every published event carries one of submitted, working, completed,
\* failed, never input_required or canceled, and what a cancel call
\* publishes is a failed event.
C13_ReachableStates ==
    \A t \in TaskIds : \A i \in 1..Len(event_queue[t]) :
        LET e == event_queue[t][i] IN
        /\ e.state \in TaskState \ {"input_required", "canceled"}
        /\ (kind[e.updater] = "cancel" \/ e.message.text = CancelNotice) => e.state = "failed"

\* a task was submitted, put to work and cancelled
C13_Witness ==
    \E t \in TaskIds :
        /\ Len(event_queue[t]) >= 3
        /\ event_queue[t][1].state = "submitted" /\ event_queue[t][2].state = "working"
        /\ kind[event_queue[t][3].updater] = "cancel"

\* the run_conversation calls that have made their thread
Threaded == {k \in Conversations : conv[k].thread # 0}

\* C14: every run_conversation call has a thread of its own; the thread
\* holds that call's user message and nothing but answers to it, each step
\* of a call writes to no other thread, and what the call returns for a run
\* that did not fail is the placeholder or an answer to its own message.
C14_ThreadIsolation ==
    /\ [](\A k \in Threaded :
            LET th == threads[conv[k].thread] IN
            /\ \A j \in Threaded \ {k} : conv[j].thread # conv[k].thread
            /\ \A i \in 1..Len(th) :
                  /\ th[i].role = "user" =>
                        i = 1 /\ th[i].text_messages = <<<<conv[k].user_message>>>>
                  /\ th[i].role = "agent" =>
                        \A x \in 1..Len(th[i].text_messages) :
                            th[i].text_messages[x][2] = conv[k].user_message
            /\ (conv[k].pc = "returned" /\ conv[k].run.status # "failed") =>
                  \A x \in 1..Len(conv[k].result) :
                      \/ conv[k].result[x] = <<"No response received">>
                      \/ conv[k].result[x][2] = conv[k].user_message)
    /\ [][\A k \in Conversations : conv'[k] # conv[k] =>
            \A t \in 1..Len(threads) : t # conv'[k].thread => threads'[t] = threads[t]]_vars

\* two calls with different messages are both waiting to read their answer
C14_Witness ==
    /\ conv[1].pc = "collect" /\ conv[2].pc = "collect"
    /\ conv[1].user_message # conv[2].user_message
    /\ \A k \in {1, 2} : Responses(Reverse(threads[conv[k].thread])) # <<>>

\* ---- the sequential workflow
\* the output events of the stream, and the messages of its first k events
OutputEvents == SelectSeq(stream, LAMBDA e : e.kind = "output")

RECURSIVE Produced(_, _)
Produced(evs, k) == IF k = 0 THEN <<>> ELSE Produced(evs, k - 1) \o evs[k].data

RunEnded == pipe_pc \in {"completed", "failed"}

\* C15: a run emits one output event per participant, stage_index counting
\* up from 0, all of them before the signal that ends the run; a completed
\* run has emitted exactly len(participants) of them, nothing is emitted
\* after the run has ended, and main has collected one entry per participant.
C15_OneEventPerStage ==
    /\ [](/\ Len(OutputEvents) = stage
          /\ stage <= Len(workflow)
          /\ \A i \in 1..Len(stream) :
                stream[i].kind = "output" =>
                    /\ stream[i].stage_index = i - 1
                    /\ \A j \in 1..i : stream[j].kind = "output"
          /\ pipe_pc = "completed" =>
                /\ Len(OutputEvents) = Len(workflow)
                /\ Len(stream) = Len(workflow) + 1
                /\ Last(stream) = TerminalSignal
          /\ main_pc \in {"display", "done"} =>
                /\ Len(outputs) = Len(workflow)
                /\ \A i \in 1..Len(outputs) : outputs[i] = stream[i].data)
    /\ [][RunEnded => stream' = stream /\ RunEnded']_vars

\* main has read a completed run of three stages to its end
C15_Witness ==
    /\ Len(workflow) = 3
    /\ pipe_pc = "completed"
    /\ main_pc = "done"
    /\ Len(outputs) = 3

\* C16: the conversation state starts as one user message holding the
\* input and only grows by appending; stage i is invoked with the seed
\* followed by the messages of stages 0..i-1 in order, and only after the
\* messages of stage i-1 have been appended.
C16_WholeStateInOrder ==
    /\ [](pipe_pc \notin {"built", "called"} =>
            /\ conversation = Seed(initial_input) \o Produced(stream, stage)
            /\ \A i \in 1..Len(seen) :
                  /\ i - 1 <= stage
                  /\ seen[i] = Seed(initial_input) \o Produced(stream, i - 1)
            /\ Len(seen) \in {stage, stage + 1}
            /\ Len(seen) = stage + 1 => pipe_pc \in {"invoked", "failed"})
    /\ [][/\ Len(conversation') >= Len(conversation)
          /\ SubSeq(conversation', 1, Len(conversation)) = conversation
          /\ Len(seen') >= Len(seen)
          /\ SubSeq(seen', 1, Len(seen)) = seen]_vars

\* the third stage has been invoked with the seed and the three messages of
\* the two stages before it
C16_Witness ==
    /\ Len(seen) = 3
    /\ Len(seen[3]) >= 4
    /\ seen[3][1].text = initial_input
    /\ seen[3][2].author_name # seen[3][Len(seen[3])].author_name

\* C17: an output event carries the messages of its own stage, which are
\* the part of the conversation state that stage appended, and not the
\* history before it; what main shows, outputs[-1], is what the last stage
\* returned.  One echoing stage on "I love the app" gives one event whose
\* only message is the assistant message "I LOVE THE APP".
C17_OwnMessagesOnly ==
    /\ \A i \in 1..Len(stream) :
          stream[i].kind = "output" =>
              LET before == 1 + Len(Produced(stream, i - 1)) IN
              /\ stream[i].data = Reply(workflow[i], seen[i])
              /\ stream[i].data =
                    SubSeq(conversation, before + 1, before + Len(stream[i].data))
              /\ seen[i] = SubSeq(conversation, 1, before)
    /\ main_pc \in {"display", "done"} =>
          /\ outputs # <<>>
          /\ Shown(outputs) = Reply(workflow[Len(workflow)], seen[Len(workflow)])
    /\ main_pc = "done" =>
          /\ Len(printed) = Len(Last(OutputEvents).data)
          /\ \A x \in 1..Len(printed) : printed[x].text = Last(OutputEvents).data[x].text
    /\ (/\ Len(workflow) = 1
        /\ workflow[1].behaviour = "echo"
        /\ initial_input = <<"I love the app">>
        /\ stage = 1) =>
          /\ Len(OutputEvents) = 1
          /\ Len(stream[1].data) = 1
          /\ stream[1].data[1].role = "assistant"
          /\ stream[1].data[1].text = <<"I LOVE THE APP">>

\* main has printed the last stage's messages of a run of several stages
\* whose first stage returned something else
C17_Witness ==
    /\ main_pc = "done"
    /\ Len(workflow) >= 2
    /\ printed # <<>>
    /\ stream[1].data # Shown(outputs)
    /\ Len(conversation) > 1 + Len(Shown(outputs))

\* the general part of C18: a failing participant aborts the run
AbortsOnFailure ==
    /\ [](pipe_pc = "failed" =>
            /\ pipe_exc # NoExc
            /\ Len(seen) = stage + 1
            /\ Len(stream) = stage
            /\ \A i \in 1..Len(stream) :
                  stream[i].kind = "output" /\ stream[i].stage_index = i - 1
            /\ main_pc \in {"loop", "raised"}
            /\ printed = <<>>)
    /\ [](main_pc = "raised" => pipe_pc = "failed" /\ Len(outputs) = stage)
    /\ [][pipe_pc = "failed" =>
            /\ pipe_pc' = "failed"
            /\ UNCHANGED <<stream, seen, conversation, stage, pipe_exc>>]_vars
    /\ [][Len(stream') >= Len(stream) /\ SubSeq(stream', 1, Len(stream)) = stream]_vars

C19_AuthorDefault ==
    main_pc = "done" /\ outputs # <<>> =>
        \A x \in 1..Len(printed) :
            LET msg == Shown(outputs)[x] IN
            /\ msg.author_name # None => printed[x].name = msg.author_name
            /\ msg.author_name = None =>
                  /\ msg.role = "assistant" => printed[x].name = "assistant"
                  /\ printed[x].name = "user" => msg.role = "user"

\* ---- the order of the steps of execute
\* the worker has been invoked for call c: generate_title was called
Invoked(c) ==
    /\ pc[c] \in {"returned", "raised"}
    /\ response[c] # <<>> \/ exc[c] = AttributeErrorOf("generate_title")

\* the steps of an execute call, in the order of lines 128-134 and 75-97
StepOrder ==
    {<<"idle", "start_work">>, <<"start_work", "validate">>,
     <<"validate", "get_agent">>, <<"validate", "returned">>,
     <<"get_agent", "generate_title">>, <<"get_agent", "returned">>,
     <<"get_agent", "raised">>, <<"generate_title", "returned">>,
     <<"generate_title", "raised">>}

\* C20: in an execute call the submitted event is published first, then
\* the working event, then the input is validated, then the handle is
\* taken from the cache, then the worker is invoked; the worker is invoked
\* only for a task reported working, and a completed event is published
\* only after the worker has returned.
C20_StepOrder ==
    /\ [](\A c \in Executes :
            LET q == EventsOfCall(c) IN
            /\ pc[c] # "idle" => Len(q) >= 1 /\ q[1].state = "submitted"
            /\ pc[c] \notin {"idle", "start_work"} => Len(q) >= 2 /\ q[2].state = "working"
            /\ user_message[c] # None =>
                  ValidInput(c) /\ pc[c] \notin {"idle", "start_work", "validate"}
            /\ agent[c] # NoAgent => user_message[c] # None /\ agent[c] = foundry_agent
            /\ (pc[c] = "generate_title" \/ Invoked(c)) =>
                  /\ agent[c] # NoAgent
                  /\ Len(q) >= 3
                  /\ q[3].state = "working"
            /\ \A i \in 1..Len(q) :
                  q[i].state = "completed" => i > 3 /\ Invoked(c) /\ response[c] # <<>>)
    /\ [][\A c \in Calls :
            (kind'[c] = "execute" /\ pc'[c] # pc[c]) => <<pc[c], pc'[c]>> \in StepOrder]_vars

\* a call has invoked the worker after submitted, working, validation and
\* the handle
C20_Witness ==
    \E c \in Executes :
        /\ Invoked(c)
        /\ agent[c] # NoAgent
        /\ user_message[c] # None
        /\ [i \in 1..Len(EventsOfCall(c)) |-> EventsOfCall(c)[i].state]
              = <<"submitted", "working", "working", "failed">>

\* ---- requests on one executor (server.py lines 121-135: one
\* FoundryAgentExecutor serves every request)
\* call c fails in this step
FailsNow(c) == exc[c] = NoExc /\ exc'[c] # NoExc

\* C21: every event lies on the queue of, and carries, the task id and
\* context id of the request that published it; a step of one call leaves
\* the events, the position, the exception and the handle of every other
\* call as they are; a failing step does not remove or replace a cached
\* worker; and the terminal event of an execute call that has returned
\* follows from that call's own input and exception.
C21_RequestsIsolated ==
    /\ [](\A t \in TaskIds : \A i \in 1..Len(event_queue[t]) :
            LET e == event_queue[t][i] IN
            /\ e.task_id = t
            /\ e.task_id = context[e.updater].task_id
            /\ e.context_id = context[e.updater].context_id
            /\ e.message # NoMessage => e.message.context_id = context[e.updater].context_id)
    /\ [](\A c \in Returned :
            /\ Last(EventsOfCall(c)) =
                  IF exc[c] # NoExc
                  THEN Event(context[c], c, "failed",
                             new_agent_text_message(FailureText(exc[c]), context[c].context_id))
                  ELSE Event(context[c], c, "completed",
                             new_agent_text_message(response[c], context[c].context_id))
            /\ ~ValidInput(c) => exc[c] = Validate(message_parts[c]))
    /\ [][\A c \in Calls : pc'[c] # pc[c] =>
            /\ \A d \in Calls \ {c} :
                  /\ pc'[d] = pc[d] /\ exc'[d] = exc[d] /\ agent'[d] = agent[d]
                  /\ response'[d] = response[d]
                  /\ pc[d] # "idle" =>
                        SelectSeq(event_queue'[context[d].task_id], LAMBDA e : e.updater = d)
                            = EventsOfCall(d)
            /\ FailsNow(c) => foundry_agent' = foundry_agent]_vars
    /\ [][foundry_agent # NoAgent => foundry_agent' = foundry_agent]_vars

\* a later request with another task id has failed validation while an
\* earlier one, holding the cached worker, is still about to invoke it
C21_Witness ==
    \E c, d \in Executes :
        /\ c < d
        /\ context[c].task_id # context[d].task_id
        /\ pc[c] = "generate_title"
        /\ agent[c] # NoAgent /\ agent[c] = foundry_agent
        /\ pc[d] = "returned"
        /\ ~ValidInput(d)
        /\ Last(event_queue[context[d].task_id]).state = "failed"

\* ---- what run_conversation returns
\* the positions on a thread of the agent messages that have text content
WithText(th) == {i \in 1..Len(th) : th[i].role = "agent" /\ th[i].text_messages # <<>>}

\* C22: a run_conversation call that returns hands back a list that is not
\* empty and holds texts only; for a run that did not fail it is the texts
\* of the newest agent message with text content, in their order, or the
\* single placeholder when the thread has no such message; and the agent
\* of the TitleAgent is set.
C22_ReturnsNewestTexts ==
    \A k \in Conversations : conv[k].pc = "returned" =>
        LET th == threads[conv[k].thread]
            res == conv[k].result
        IN
        /\ res # <<>>
        /\ \A x \in 1..Len(res) : res[x] # <<>> /\ \A y \in 1..Len(res[x]) : res[x][y] \in STRING
        /\ conv[k].run.status = "failed" => Len(res) = 1
        /\ conv[k].run.status # "failed" =>
              IF WithText(th) = {}
              THEN res = <<<<"No response received">>>>
              ELSE LET newest == CHOOSE i \in WithText(th) : \A j \in WithText(th) : j <= i
                   IN res = th[newest].text_messages
        /\ title_agents[conv[k].self] # NoRemoteAgent

\* one call has returned the newer of two agent messages with text, the
\* other has skipped a newer agent message without text
C22_Witness ==
    \E k, j \in Conversations :
        /\ conv[k].pc = "returned" /\ conv[j].pc = "returned"
        /\ conv[k].run.status = "completed" /\ conv[j].run.status = "completed"
        /\ Cardinality(WithText(threads[conv[k].thread])) = 2
        /\ conv[k].result = Last(threads[conv[k].thread]).text_messages
        /\ Last(threads[conv[j].thread]).text_messages = <<>>
        /\ WithText(threads[conv[j].thread]) # {}
        /\ conv[j].result # <<<<"No response received">>>>

====
